---- MODULE Spec2Model ----
(***************************************************************************)
(* Model of SDK/FAI_python/x64/setup.py: the build script that locates     *)
(* swig, resolves a version from git, generates the wrapper, stages the    *)
(* runtime libraries and calls setuptools' setup().                        *)
(*                                                                         *)
(* Text (versions, tool output) is a sequence of one-character strings so  *)
(* that the regular expressions and the %-formatting of the script are     *)
(* computed on characters.                                                 *)
(***************************************************************************)
EXTENDS Integers, Sequences, FiniteSets, TLC

VARIABLES
    pc,         \* position of the script (or of the function under study)
    gitIn,      \* what "git describe --tags --dirty" does, and the clock
    version,    \* the version string (get_git_version's result, then args.pp_version)
    swigIn,     \* the host of find_swig: os, program-files variables, what each candidate does
    SwigExe,    \* find_swig's result
    fs,         \* the directories the script removes and fills: whether each exists, the file paths in it
    cleanIn,    \* the last call of clean: its arguments and the directories before it
    host,       \* the machine: os, pointer width, FAI_SDK_ROOT_PATH set, msvc version
    bs,         \* the class of the profile BuildSupport.make() gave
    args,       \* the parsed command line; before parsing, the parser's defaults
    help_mode,
    ExtraCompileArgs,
    ExtraLinkArgs,
    fai_python_src,     \* the generated source call_swig names, <<>> while unbound
    fai_python_ext,     \* the Extension description
    package_data_files,
    setupCall,  \* what setup() was called with
    copyIn,     \* what copy_runtime found: the runtime directory and the system directory
    done,       \* the steps performed so far
    rc,         \* the exit codes of the tools run as build steps, -1 before they run
    exit        \* how the process ended: "running", "0", or the exception that ended it

pureVars == <<gitIn, version, swigIn, SwigExe, fs, cleanIn>>

runVars == <<host, bs, args, help_mode, ExtraCompileArgs, ExtraLinkArgs,
             fai_python_src, fai_python_ext, package_data_files, setupCall,
             copyIn, done, rc, exit>>

vars == <<pc, pureVars, runVars>>

-----------------------------------------------------------------------------
(* Characters and text                                                     *)

Digit == {"0", "1", "2", "3", "4", "5", "6", "7", "8", "9"}

Lower == {"a", "b", "c", "d", "e", "f", "g", "h", "i", "j", "k", "l", "m",
          "n", "o", "p", "q", "r", "s", "t", "u", "v", "w", "x", "y", "z"}

Upper == {"A", "B", "C", "D", "E", "F", "G", "H", "I", "J", "K", "L", "M",
          "N", "O", "P", "Q", "R", "S", "T", "U", "V", "W", "X", "Y", "Z"}

AlNum == Lower \cup Upper \cup Digit

\* [0-9a-f]
HexLower == Digit \cup {"a", "b", "c", "d", "e", "f"}

DigitChar == <<"0", "1", "2", "3", "4", "5", "6", "7", "8", "9">>

\* "%d" % n, for n >= 0
RECURSIVE IntToStr(_)
IntToStr(n) ==
    IF n < 10 THEN <<DigitChar[n + 1]>>
    ELSE IntToStr(n \div 10) \o <<DigitChar[(n % 10) + 1]>>

DigitVal(c) == CHOOSE d \in 0..9 : DigitChar[d + 1] = c

\* int(s), for s a non-empty run of digits
RECURSIVE StrToInt(_)
StrToInt(s) ==
    IF Len(s) = 1 THEN DigitVal(s[1])
    ELSE 10 * StrToInt(SubSeq(s, 1, Len(s) - 1)) + DigitVal(s[Len(s)])

\* s.split(c)
RECURSIVE Split(_, _)
Split(s, c) ==
    IF \A i \in 1..Len(s) : s[i] # c THEN <<s>>
    ELSE LET i == CHOOSE k \in 1..Len(s) :
                    s[k] = c /\ \A m \in 1..(k - 1) : s[m] # c
         IN  <<SubSeq(s, 1, i - 1)>> \o Split(SubSeq(s, i + 1, Len(s)), c)

IsNumber(s) == Len(s) > 0 /\ \A i \in 1..Len(s) : s[i] \in Digit

\* s[i] when i is a position of s, a character of no class otherwise
At(s, i) == IF i \in 1..Len(s) THEN s[i] ELSE "$"

\* the positions j such that t occurs in s at i and ends before j
Lit(s, i, t) ==
    IF i + Len(t) - 1 <= Len(s) /\ SubSeq(s, i, i + Len(t) - 1) = t
    THEN {i + Len(t)} ELSE {}

\* the end positions of a non-empty run of characters of class C from i: C+
Run1(s, i, C) == {j \in (i + 1)..(Len(s) + 1) : \A k \in i..(j - 1) : s[k] \in C}

\* C*
Run0(s, i, C) == Run1(s, i, C) \cup {i}

-----------------------------------------------------------------------------
(* BuildSupport.get_git_version                                            *)

\* (?:\.\d+)
DotNum(s, i) == IF At(s, i) = "." THEN Run1(s, i + 1, Digit) ELSE {}

\* \d+(?:\.\d+){2,3}
NumericEnds(s) ==
    LET n0 == Run1(s, 1, Digit)
        n1 == UNION {DotNum(s, j) : j \in n0}
        n2 == UNION {DotNum(s, j) : j \in n1}
        n3 == UNION {DotNum(s, j) : j \in n2}
    IN  n2 \cup n3

\* (?:a|b|rc)\d*
PreRelease(s, i) ==
    IF At(s, i) \in {"a", "b"} THEN Run0(s, i + 1, Digit)
    ELSE IF At(s, i) = "r" /\ At(s, i + 1) = "c" THEN Run0(s, i + 2, Digit)
    ELSE {}

\* \d+(?:\.\d+){2,3}(?:(?:a|b|rc)\d*)?  matched from the start of s
BaseEnds(s) ==
    NumericEnds(s) \cup UNION {PreRelease(s, j) : j \in NumericEnds(s)}

\* m_rel: the release pattern, anchored at both ends
m_rel(s) == (Len(s) + 1) \in BaseEnds(s)

\* (?:(?:\+[a-zA-Z0-9](?:[a-zA-Z0-9\.]*[a-zA-Z0-9]?))?)
LocalEnds(s, i) ==
    {i} \cup
    (IF At(s, i) = "+" /\ At(s, i + 1) \in AlNum
     THEN Run0(s, i + 2, AlNum \cup {"."}) ELSE {})

\* (?:-(\d+)-g[0-9a-f]+)? : the end position and group 2 (<<>> when the
\* optional part is not taken)
DistEnds(s, i) ==
    {[end |-> i, g2 |-> <<>>]} \cup
    (IF At(s, i) = "-"
     THEN UNION {
            IF At(s, d) = "-" /\ At(s, d + 1) = "g"
            THEN {[end |-> e, g2 |-> SubSeq(s, i + 1, d - 1)] :
                    e \in Run1(s, d + 2, HexLower)}
            ELSE {} : d \in Run1(s, i + 1, Digit)}
     ELSE {})

\* (?:-dirty)?$
DirtyEnd(s, i) ==
    (Len(s) + 1) \in ({i} \cup Lit(s, i, <<"-", "d", "i", "r", "t", "y">>))

\* rx_git_ver: every way the development pattern matches the whole of s,
\* as the pair of its groups
DevMatches(s) ==
    UNION {
      UNION {
        {[g1 |-> SubSeq(s, 1, b - 1), g2 |-> m.g2] :
            m \in {x \in DistEnds(s, l) : DirtyEnd(s, x.end)}}
        : l \in LocalEnds(s, b)}
      : b \in BaseEnds(s)}

\* m_dev: the match the greedy search returns (the longest group 1, the
\* distance taken when it can be)
m_dev(s) ==
    CHOOSE m \in DevMatches(s) :
        \A o \in DevMatches(s) :
            \/ Len(o.g1) < Len(m.g1)
            \/ Len(o.g1) = Len(m.g1) /\ Len(o.g2) <= Len(m.g2)

DevVersionNoZero(g1, g2) == g1 \o <<".", "d", "e", "v">> \o g2

\* "%s.dev%s" % (m_dev.group(1), m_dev.group(2) or 0)
DevVersion(g1, g2) ==
    g1 \o <<".", "d", "e", "v">> \o (IF g2 = <<>> THEN <<"0">> ELSE g2)

\* (now - midnight).seconds
todays_seconds(now) == now.hour * 3600 + now.minute * 60 + now.second

\* "%d.%d.%d.dev%d" % (now.year, now.month, now.day, todays_seconds)
DateVersion(now) ==
    IntToStr(now.year) \o <<".">> \o IntToStr(now.month) \o <<".">> \o
    IntToStr(now.day) \o <<".", "d", "e", "v">> \o IntToStr(todays_seconds(now))

\* the exceptions the except clause of get_git_version catches
GitCaughtOnlyCalled == {"CalledProcessError"}

GitCaught == {"OSError", "CalledProcessError"}

\* what the try block does: the value it returns, or the exception it raises.
\* git.kind: "missing" (no git executable: FileNotFoundError, an OSError),
\* "nonzero" (check_output raises CalledProcessError), "ok" (git.text is the
\* stripped output)
GitTry(git) ==
    IF git.kind = "missing" THEN [raised |-> "OSError", value |-> <<>>]
    ELSE IF git.kind = "nonzero"
    THEN [raised |-> "CalledProcessError", value |-> <<>>]
    ELSE IF m_rel(git.text) THEN [raised |-> "none", value |-> git.text]
    ELSE IF DevMatches(git.text) # {}
    THEN [raised |-> "none",
          value |-> DevVersion(m_dev(git.text).g1, m_dev(git.text).g2)]
    ELSE [raised |-> "OSError", value |-> <<>>]

\* get_git_version: [raised, value]; raised is "none" when it returns
get_git_version(git, now) ==
    LET t == GitTry(git)
    IN  IF t.raised = "none" THEN t
        ELSE IF t.raised \in GitCaught
        THEN [raised |-> "none", value |-> DateVersion(now)]
        ELSE t

-----------------------------------------------------------------------------
(* The inputs of get_git_version: descriptors built from their parts       *)

MaxDist == 2

T_1_2_3 == <<"1", ".", "2", ".", "3">>

\* <base> as the documentation of the version resolver has it: 3 or 4 dotted
\* numbers, an optional a/b/rc suffix
ValidBases ==
    { T_1_2_3,
      T_1_2_3 \o <<".", "4">>,
      <<"1", "0", ".", "0", ".", "1", "2">>,
      T_1_2_3 \o <<"r", "c", "1">>,
      T_1_2_3 \o <<"a">>,
      T_1_2_3 \o <<"b", "2">> }

OtherBases ==
    { <<"1", ".", "2">>,
      T_1_2_3 \o <<".", "4", ".", "5">>,
      <<"v">> \o T_1_2_3,
      T_1_2_3 \o <<"c", "1">>,
      <<>> }

Locals == { <<>>, <<"+", "a", "b">>, <<"+", "a", ".", "b">>, <<"+", ".">> }

Hashes ==
    { <<"a", "b", "c", "d", "e", "f">>,
      <<"A", "B", "C", "D", "E", "F">>,
      <<"0", "a", "1", "b", "2", "c", "3">>,
      <<"1", "2", "3", "4", "5", "6">>,
      <<"x", "y">> }

Dists == 0..MaxDist \cup {14}

\* the parts of a descriptor; dist = -1 when it has no "-<N>-g<hash>"
DescriptorParts ==
    [base : ValidBases \cup OtherBases, local : Locals, dist : {-1},
     hash : {<<>>}, dirty : BOOLEAN]
    \cup
    [base : ValidBases \cup OtherBases, local : {<<>>, <<"+", "a", "b">>},
     dist : Dists, hash : Hashes, dirty : BOOLEAN]

\* the text git prints for the parts
Descriptor(p) ==
    p.base \o p.local \o
    (IF p.dist >= 0
     THEN <<"-">> \o IntToStr(p.dist) \o <<"-", "g">> \o p.hash ELSE <<>>) \o
    (IF p.dirty THEN <<"-", "d", "i", "r", "t", "y">> ELSE <<>>)

NoParts == [base |-> <<>>, local |-> <<>>, dist |-> -1, hash |-> <<>>, dirty |-> FALSE]

GitOutcomes ==
    {[kind |-> "ok", text |-> Descriptor(p), parts |-> p] : p \in DescriptorParts}
    \cup {[kind |-> k, text |-> <<>>, parts |-> NoParts] : k \in {"missing", "nonzero"}}

Clocks ==
    [year : {2024}, month : {1, 12}, day : {31},
     hour : {0, 23}, minute : {0, 59}, second : {0, 59}]

-----------------------------------------------------------------------------
(* get_git_version on its own                                              *)

NoGit == [git |-> [kind |-> "missing", text |-> <<>>, parts |-> NoParts],
          now |-> [year |-> 2024, month |-> 1, day |-> 31, hour |-> 0,
                   minute |-> 0, second |-> 0]]

NoSwig == [os |-> "Linux", search |-> <<>>, run |-> <<>>]

NoExe == [dir |-> "", exe |-> <<>>]

NoArgs == [pp_version |-> <<>>, pp_debug |-> FALSE, swig_only |-> FALSE,
           skip_swig |-> FALSE, rebuild_doxygen |-> FALSE,
           generate_python_doc |-> FALSE, remainder |-> {}]

NoExt == [sources |-> <<>>, extra_compile_args |-> <<>>, extra_link_args |-> <<>>]

NoData == [patterns |-> <<>>, files |-> <<>>]

NoSetup == [called |-> FALSE, version |-> <<>>, ext |-> NoExt,
            package_data |-> NoData, artifact |-> FALSE]

NoCopy == [called |-> FALSE, order |-> <<>>, runtime |-> {}, sysdir |-> {}]

NoRc == [doxygen |-> -1, swig |-> -1, python_doc |-> -1]

NoHost == [os |-> "Linux", width |-> 64, sdk_root |-> TRUE, msvc_ver |-> <<16, 0>>]

\* the variables of a run of the script, while a function is studied on its own
IdleRun ==
    /\ host = NoHost
    /\ bs = "unset"
    /\ args = NoArgs
    /\ help_mode = FALSE
    /\ ExtraCompileArgs = <<>>
    /\ ExtraLinkArgs = <<>>
    /\ fai_python_src = <<>>
    /\ fai_python_ext = NoExt
    /\ package_data_files = NoData
    /\ setupCall = NoSetup
    /\ copyIn = NoCopy
    /\ done = {}
    /\ rc = NoRc
    /\ exit = "running"

\* a directory that does not exist, and an existing one holding the files fl
Absent == [exists |-> FALSE, files |-> {}]

Holding(fl) == [exists |-> TRUE, files |-> fl]

NoFs == [d \in {"generated", "FAI_python", "build", "FAI_python.egg-info", "dist"} |-> Absent]

NoClean == [mode |-> "none", additional_dirs |-> <<>>, before |-> NoFs]

InitGit ==
    /\ pc = "git_describe"
    /\ IdleRun
    /\ fs = NoFs
    /\ cleanIn = NoClean
    /\ swigIn = NoSwig
    /\ SwigExe = NoExe
    /\ gitIn \in [git : GitOutcomes, now : Clocks]
    /\ version = <<>>

GitStep ==
    /\ pc = "git_describe"
    /\ LET r == get_git_version(gitIn.git, gitIn.now)
       IN  /\ version' = r.value
           /\ pc' = IF r.raised = "none" THEN "git_returned" ELSE "git_raised"
    /\ UNCHANGED <<gitIn, swigIn, SwigExe, fs, cleanIn, runVars>>

NextGit == GitStep

SpecGit == InitGit /\ [][NextGit]_vars

\* a commit hash in the wide sense: hexadecimal digits of either case
IsHexAnyCase(h) ==
    Len(h) > 0 /\
    \A i \in 1..Len(h) : h[i] \in Digit \cup {"a", "b", "c", "d", "e", "f",
                                              "A", "B", "C", "D", "E", "F"}

\* a commit hash as git prints it: lower-case hexadecimal digits
IsHexLowerCase(h) == Len(h) > 0 /\ \A i \in 1..Len(h) : h[i] \in HexLower

\* the descriptor is <base>-<N>-g<hash>[-dirty] or <base>-dirty
AheadOfTag(p, IsHash(_)) ==
    /\ p.base \in ValidBases
    /\ p.local = <<>>
    /\ \/ p.dist >= 0 /\ IsHash(p.hash)
       \/ p.dist < 0 /\ p.dirty

\* <base>.dev<N>, and <base>.dev0 for <base>-dirty
ExpectedDev(p) ==
    p.base \o <<".", "d", "e", "v">> \o IntToStr(IF p.dist >= 0 THEN p.dist ELSE 0)

\* C4 as stated: every <base>-<N>-g<hash>[-dirty], the hash in either case
\* as in "1.2.3-14-gABCDEF", gives <base>.dev<N>, and <base>-dirty gives
\* <base>.dev0.
C4_AsStated ==
    (pc # "git_describe" /\ gitIn.git.kind = "ok"
        /\ AheadOfTag(gitIn.git.parts, IsHexAnyCase))
    => (pc = "git_returned" /\ version = ExpectedDev(gitIn.git.parts))

\* C4 (amended): get_git_version maps <base>-<N>-g<hash>[-dirty], the hash in
\* lower-case hexadecimal digits as git prints it, to <base>.dev<N>, and
\* <base>-dirty to <base>.dev0, for <base> of 3 or 4 dotted numbers with an
\* optional a/b/rc suffix.
C4_DevVersion ==
    (pc # "git_describe" /\ gitIn.git.kind = "ok"
        /\ AheadOfTag(gitIn.git.parts, IsHexLowerCase))
    => (pc = "git_returned" /\ version = ExpectedDev(gitIn.git.parts))

C4_Witness ==
    /\ pc = "git_returned"
    /\ gitIn.git.text = T_1_2_3 \o <<"-", "1", "4", "-", "g", "a", "b", "c", "d", "e", "f">>
    /\ version = T_1_2_3 \o <<".", "d", "e", "v", "1", "4">>

\* the descriptor is none the two patterns recognise, by its parts
Unrecognised(git) ==
    \/ git.kind \in {"missing", "nonzero"}
    \/ git.parts.base \notin ValidBases
    \/ git.parts.local = <<"+", ".">>
    \/ git.parts.dist >= 0 /\ ~IsHexLowerCase(git.parts.hash)

\* v reads <year>.<month>.<day>.dev<s> for the date of now, 0 <= s < 86400,
\* s the seconds of now since midnight
IsDateVersion(v, now) ==
    LET f == Split(v, ".")
    IN  /\ Len(f) = 4
        /\ IsNumber(f[1]) /\ StrToInt(f[1]) = now.year
        /\ IsNumber(f[2]) /\ StrToInt(f[2]) = now.month
        /\ IsNumber(f[3]) /\ StrToInt(f[3]) = now.day
        /\ Len(f[4]) > 3 /\ SubSeq(f[4], 1, 3) = <<"d", "e", "v">>
        /\ LET t == SubSeq(f[4], 4, Len(f[4]))
           IN  /\ IsNumber(t)
               /\ StrToInt(t) \in 0..86399
               /\ StrToInt(t) = now.hour * 3600 + now.minute * 60 + now.second

\* C5: when git is missing, exits non-zero or prints what neither pattern
\* recognises, get_git_version does not raise and returns
\* <year>.<month>.<day>.dev<seconds since midnight> of the current date.
C5_Fallback ==
    (pc # "git_describe" /\ Unrecognised(gitIn.git))
    => (pc = "git_returned" /\ IsDateVersion(version, gitIn.now))

C5_Witness ==
    /\ pc = "git_returned"
    /\ gitIn.git.kind = "ok"
    /\ gitIn.git.text = <<"v">> \o T_1_2_3
    /\ gitIn.now.hour = 23 /\ gitIn.now.minute = 59 /\ gitIn.now.second = 59
    /\ version = <<"2", "0", "2", "4", ".", "1", "2", ".", "3", "1", ".",
                   "d", "e", "v", "8", "6", "3", "9", "9">>

-----------------------------------------------------------------------------
(* BuildSupport.find_swig, BuildSupportWindows.find_swig and               *)
(* is_supported_swig_version                                               *)

T_SWIG_Version ==
    <<"S", "W", "I", "G", " ", "V", "e", "r", "s", "i", "o", "n", " ">>

\* re.search(r"SWIG Version ([\d\.]+)", output): group 1 of the leftmost
\* match, <<>> when there is none
SwigVersionGroup(output) ==
    LET starts == {i \in 1..Len(output) :
                     \E j \in Lit(output, i, T_SWIG_Version) :
                        Run1(output, j, Digit \cup {"."}) # {}}
    IN  IF starts = {} THEN <<>>
        ELSE LET i == CHOOSE k \in starts : \A m \in starts : k <= m
                 j == i + Len(T_SWIG_Version)
                 e == CHOOSE k \in Run1(output, j, Digit \cup {"."}) :
                        \A m \in Run1(output, j, Digit \cup {"."}) : m <= k
             IN  SubSeq(output, j, e - 1)

\* a < b for tuples of integers, as Python compares them
RECURSIVE TupleLess(_, _)
TupleLess(a, b) ==
    IF b = <<>> THEN FALSE
    ELSE IF a = <<>> THEN TRUE
    ELSE IF a[1] # b[1] THEN a[1] < b[1]
    ELSE TupleLess(Tail(a), Tail(b))

\* a < b for tuples of digit strings compared as text
RECURSIVE TextLess(_, _)
TextLess(a, b) ==
    IF b = <<>> THEN FALSE
    ELSE IF a = <<>> THEN TRUE
    ELSE LET x == a[1]
             y == b[1]
             n == IF Len(x) < Len(y) THEN Len(x) ELSE Len(y)
             d == {k \in 1..n : x[k] # y[k]}
         IN  IF x = y THEN TextLess(Tail(a), Tail(b))
             ELSE IF d = {} THEN Len(x) < Len(y)
             ELSE LET k == CHOOSE q \in d : \A r \in d : q <= r
                  IN  DigitVal(x[k]) < DigitVal(y[k])

MinSwigVersion == <<3, 0, 12>>

TooOldAsText(parts) ==
    TextLess(parts, [i \in 1..Len(MinSwigVersion) |-> IntToStr(MinSwigVersion[i])])

\* tuple(map(int, res.group(1).split('.'))) < (3, 0, 12)
TooOld(parts) == TupleLess([i \in 1..Len(parts) |-> StrToInt(parts[i])], MinSwigVersion)

\* is_supported_swig_version(swig_executable): "yes", "no", or the exception
\* that leaves it. run.kind: "missing" (which() gives None, or the file does
\* not exist: FileNotFoundError), "nonzero" (CalledProcessError), "ok"
\* (run.text is the output of "<candidate> -version")
is_supported_swig_version(run) ==
    IF run.kind \in {"missing", "nonzero"} THEN "no"
    ELSE LET g == SwigVersionGroup(run.text)
         IN  IF g = <<>> THEN "no"
             ELSE LET parts == Split(g, ".")
                  IN  IF \E i \in 1..Len(parts) : parts[i] = <<>>
                      THEN "ValueError"
                      ELSE IF TooOld(parts) THEN "no" ELSE "yes"

\* Compatible swig versions
SwigVersions == << <<"4", ".", "0", ".", "0">> >>

ProgramFilesNames == <<"PROGRAMFILES", "PROGRAMFILES(X86)", "PROGRAMW6432">>

\* the candidates in the order they are tried: on Windows
\* <dir>\swigwin-<version>\swig.exe for each program-files variable that is
\* set and each of SwigVersions, then "swig4.0" and "swig" on the path
Candidates(os, search) ==
    (IF os = "Windows"
     THEN [i \in 1..(Len(search) * Len(SwigVersions)) |->
             [dir |-> search[((i - 1) \div Len(SwigVersions)) + 1],
              exe |-> <<"swigwin-">> \o SwigVersions[((i - 1) % Len(SwigVersions)) + 1]
                        \o <<"\\swig.exe">>]]
     ELSE <<>>)
    \o << [dir |-> "PATH", exe |-> <<"swig4.0">>], [dir |-> "PATH", exe |-> <<"swig">>] >>

\* the loops of find_swig from candidate i on: the candidate returned, or the
\* exception raised
RECURSIVE FindFrom(_, _, _)
FindFrom(cands, run, i) ==
    IF i > Len(cands) THEN [raised |-> "RuntimeError", exe |-> NoExe]
    ELSE LET ok == is_supported_swig_version(run[i])
         IN  IF ok = "yes" THEN [raised |-> "none", exe |-> cands[i]]
             ELSE IF ok = "no" THEN FindFrom(cands, run, i + 1)
             ELSE [raised |-> ok, exe |-> NoExe]

find_swig(h) == FindFrom(Candidates(h.os, h.search), h.run, 1)

-----------------------------------------------------------------------------
(* The inputs of find_swig                                                 *)

\* the versions a candidate may report
ReportedVersions == { <<2, 9, 9>>, <<3, 0, 9>>, <<3, 0, 12>>, <<4, 0, 0>> }

RECURSIVE Dotted(_)
Dotted(v) ==
    IF Len(v) = 1 THEN IntToStr(v[1])
    ELSE IntToStr(v[1]) \o <<".">> \o Dotted(Tail(v))

\* what "<candidate> -version" does; ver is <<>> when no version is reported
\* (bad: the version printed ends in a dot, which int() does not read)
SwigRuns ==
    {[kind |-> k, ver |-> <<>>, bad |-> FALSE, text |-> <<>>] :
        k \in {"missing", "nonzero"}}
    \cup {[kind |-> "ok", ver |-> <<>>, bad |-> FALSE,
           text |-> <<"s", "w", "i", "g", "\n">>]}
    \cup {[kind |-> "ok", ver |-> <<>>, bad |-> TRUE,
           text |-> T_SWIG_Version \o <<"4", ".", "0", ".", "\n">>]}
    \cup {[kind |-> "ok", ver |-> v, bad |-> FALSE,
           text |-> <<"\n">> \o T_SWIG_Version \o Dotted(v) \o <<"\n">>] :
            v \in ReportedVersions}

\* the program-files variables that are set, in the order of env_names
Searches ==
    {<<>>, <<"PROGRAMFILES(X86)">>, <<"PROGRAMFILES", "PROGRAMW6432">>}

SwigHosts ==
    UNION {{[os |-> "Windows", search |-> se, run |-> r] :
              r \in [1..(Len(se) * Len(SwigVersions) + 2) -> SwigRuns]} : se \in Searches}
    \cup {[os |-> "Linux", search |-> <<>>, run |-> r] : r \in [1..2 -> SwigRuns]}

InitSwig ==
    /\ pc = "find_swig"
    /\ IdleRun
    /\ swigIn \in SwigHosts
    /\ SwigExe = NoExe
    /\ gitIn = NoGit
    /\ version = <<>>
    /\ fs = NoFs
    /\ cleanIn = NoClean

SwigStep ==
    /\ pc = "find_swig"
    /\ LET r == find_swig(swigIn)
       IN  /\ SwigExe' = r.exe
           /\ pc' = IF r.raised = "none" THEN "swig_found" ELSE "swig_raised"
    /\ UNCHANGED <<gitIn, version, swigIn, fs, cleanIn, runVars>>

NextSwig == SwigStep

SpecSwig == InitSwig /\ [][NextSwig]_vars

\* v >= 3.0.12, component by component
AtLeastMinimum(v) ==
    \/ v[1] > 3
    \/ v[1] = 3 /\ v[2] > 0
    \/ v[1] = 3 /\ v[2] = 0 /\ v[3] >= 12

\* the candidate reports a version that is recent enough
Acceptable(r) == r.kind = "ok" /\ ~r.bad /\ r.ver # <<>> /\ AtLeastMinimum(r.ver)

\* the order of the search as documented
ExpectedOrder(h) ==
    (IF h.os = "Windows"
     THEN [i \in 1..Len(h.search) |->
             [dir |-> h.search[i],
              exe |-> <<"swigwin-", "4", ".", "0", ".", "0", "\\swig.exe">>]]
     ELSE <<>>)
    \o << [dir |-> "PATH", exe |-> <<"swig4.0">>], [dir |-> "PATH", exe |-> <<"swig">>] >>

\* C6: find_swig returns the first candidate, in the documented order, that
\* reports a version >= 3.0.12 compared as integers; candidates that are
\* missing, exit non-zero, report no version or an older one are passed over
\* without raising; it raises only when every candidate is rejected.
C6_FirstSupported ==
    LET r == swigIn.run
        good == {i \in 1..Len(r) : Acceptable(r[i])}
        first == CHOOSE i \in good : \A j \in good : i <= j
        readable == IF good = {} THEN \A i \in 1..Len(r) : ~r[i].bad
                    ELSE \A i \in 1..first : ~r[i].bad
    IN  (pc # "find_swig" /\ readable)
        => IF good = {} THEN pc = "swig_raised" /\ SwigExe = NoExe
           ELSE pc = "swig_found" /\ SwigExe = ExpectedOrder(swigIn)[first]

C6_Witness ==
    /\ pc = "swig_found"
    /\ swigIn.os = "Windows"
    /\ swigIn.search = <<"PROGRAMFILES(X86)">>
    /\ swigIn.run[1].ver = <<2, 9, 9>>
    /\ swigIn.run[2].kind = "missing"
    /\ swigIn.run[3].ver = <<4, 0, 0>>
    /\ SwigExe = [dir |-> "PATH", exe |-> <<"swig">>]

-----------------------------------------------------------------------------
(* The file system and BuildSupport.clean                                  *)

\* Where to place generated code
GeneratedDir == "generated"

\* Directory of the final package
PackageDir == "FAI_python"

\* the directories setuptools leaves behind, as the clean command names them
SetuptoolsDirs == <<"build", "FAI_python.egg-info", "dist">>

Dirs == {GeneratedDir, PackageDir} \cup {SetuptoolsDirs[i] : i \in 1..Len(SetuptoolsDirs)}

SeqRange(q) == {q[i] : i \in 1..Len(q)}

\* shutil.rmtree(cdir, ignore_errors=True) for each cdir of ds
RmTrees(f, ds) == [d \in DOMAIN f |-> IF d \in ds THEN Absent ELSE f[d]]

\* os.makedirs(d), d absent
MakeDir(f, d) == [f EXCEPT ![d] = Holding({})]

cleanIgnoreAdditional(mode, additional_dirs, f) ==
    IF mode = "skip" THEN f
    ELSE LET removed == RmTrees(f, {GeneratedDir, PackageDir})
         IN  IF mode = "keep"
             THEN MakeDir(MakeDir(removed, GeneratedDir), PackageDir)
             ELSE removed

cleanSkipAsKeep(mode, additional_dirs, f) ==
    LET removed == RmTrees(f, {GeneratedDir, PackageDir} \cup SeqRange(additional_dirs))
    IN  IF mode = "std" THEN removed
        ELSE MakeDir(MakeDir(removed, GeneratedDir), PackageDir)

\* BuildSupport.clean(mode, additional_dirs): the directories afterwards
clean(mode, additional_dirs, f) ==
    IF mode = "skip" THEN f
    ELSE LET clean_dirs == {GeneratedDir, PackageDir} \cup SeqRange(additional_dirs)
             removed == RmTrees(f, clean_dirs)
         IN  IF mode = "keep"
             THEN MakeDir(MakeDir(removed, GeneratedDir), PackageDir)
             ELSE removed

-----------------------------------------------------------------------------
(* The platform profiles: BuildSupport, BuildSupportWindows and            *)
(* BuildSupportLinux                                                       *)

\* the keys of BuildSupport.BinPath
BinPathKeys ==
    { <<"Windows", 32>>, <<"Windows", 64>>, <<"Linux", 32>>, <<"Linux", 64>>,
      <<"Darwin", 64>> }

\* BuildSupport.BinPath[(get_platform(), get_machinewidth())], for a key
BinPath(os, width) ==
    CASE <<os, width>> = <<"Windows", 32>> -> "Win32"
      [] <<os, width>> = <<"Windows", 64>> -> "x64"
      [] <<os, width>> = <<"Linux", 32>> -> "lib"
      [] <<os, width>> = <<"Linux", 64>> -> "lib64"
      [] <<os, width>> = <<"Darwin", 64>> -> "lib64"

makeDarwinAsLinux(os) ==
    IF os = "Windows" THEN "Windows" ELSE "Linux"

\* BuildSupport.make(): the class of the profile, "None" when the function
\* falls off its end after error("Unsupported platform")
make(os) ==
    IF os = "Windows" THEN "Windows"
    ELSE IF os = "Linux" THEN "Linux"
    ELSE "None"

\* What parts of the runtime should be deployed by default
RuntimeDefaultDeploy == {"base", "genicam", "libpol", "libDemosaic"}

\* A file name is a sequence of pieces, and a glob pattern a sequence of
\* pieces in which "*" stands for any run of pieces.
WindowsRuntimeFiles ==
    [ base |-> << << <<"FAI_c.dll">>, <<>> >>,
                  << <<"facamera.dll">>, <<>> >>,
                  << <<"image.dll">>, <<>> >>,
                  << <<"libusbK.dll">>, <<>> >>,
                  << <<"opencv_world455.dll">>, <<>> >>,
                  << <<"lsc_calibrate.dll">>, <<>> >>,
                  << <<"libLSC.dll">>, <<>> >> >>,
      genicam |-> << << <<"dll">>, <<>> >>,
                     << <<"dll">>, <<>> >>,
                     << <<"CLAllSerial_MD_", "*", ".dll">>, <<>> >>,
                     << <<"CLProtocol_MD_", "*", ".dll">>, <<>> >>,
                     << <<"FirmwareUpdate_MD_", "*", ".dll">>, <<>> >>,
                     << <<"GCBase_MD_", "*", ".dll">>, <<>> >>,
                     << <<"GenApiJava_MD_", "*", ".dll">>, <<>> >>,
                     << <<"GenApi_MD_", "*", ".dll">>, <<>> >>,
                     << <<"GenCP_MD_", "*", ".dll">>, <<>> >>,
                     << <<"GenTLJava_MD_", "*", ".dll">>, <<>> >>,
                     << <<"log4cpp_MD_", "*", ".dll">>, <<>> >>,
                     << <<"Log_MD_", "*", ".dll">>, <<>> >>,
                     << <<"MathParser_MD_", "*", ".dll">>, <<>> >>,
                     << <<"NodeMapData_MD_", "*", ".dll">>, <<>> >>,
                     << <<"XmlParser_MD_", "*", ".dll">>, <<>> >> >>,
      libpol |-> << << <<"libpol.dll">>, <<>> >> >>,
      libDemosaic |-> << << <<"libDemosaic.dll">>, <<>> >> >> ]

LinuxRuntimeFiles ==
    [ base |-> << << <<"libfacamera.so.", "*">>, <<>> >>,
                  << <<"libcamera_u3v.so.", "*">>, <<>> >>,
                  << <<"libfa_genapi_c.so.", "*">>, <<>> >>,
                  << <<"libimage.so.", "*">>, <<>> >>,
                  << <<"libfacamera_c.so.", "*">>, <<>> >> >>,
      genicam |-> << << <<"libCLAllSerial_", "*", ".so">>, <<>> >>,
                     << <<"libGCBase_", "*", ".so">>, <<>> >>,
                     << <<"libLog_", "*", ".so">>, <<>> >>,
                     << <<"libXmlParser_", "*", ".so">>, <<>> >>,
                     << <<"libCLProtocol_", "*", ".so">>, <<>> >>,
                     << <<"libGenApi_", "*", ".so">>, <<>> >>,
                     << <<"libMathParser_", "*", ".so">>, <<>> >>,
                     << <<"libFirmwareUpdate_", "*", ".so">>, <<>> >>,
                     << <<"liblog4cpp_", "*", ".so">>, <<>> >>,
                     << <<"libNodeMapData_", "*", ".so">>, <<>> >> >>,
      libpol |-> << << <<"liblibpol.so.2.0.0">>, <<>> >> >> ]

RuntimeFiles(profile) ==
    IF profile = "Windows" THEN WindowsRuntimeFiles ELSE LinuxRuntimeFiles

\* glob: the pattern pt matches the file name n
RECURSIVE GlobMatch(_, _)
GlobMatch(pt, n) ==
    IF pt = <<>> THEN n = <<>>
    ELSE IF pt[1] = "*"
    THEN \E k \in 0..Len(n) : GlobMatch(Tail(pt), SubSeq(n, k + 1, Len(n)))
    ELSE n # <<>> /\ n[1] = pt[1] /\ GlobMatch(Tail(pt), Tail(n))

MaxMatches == 2

\* the file name a pattern matches when x stands for its "*"
Expand(pt, x) == [i \in 1..Len(pt) |-> IF pt[i] = "*" THEN x ELSE pt[i]]

ManifestPatterns(manifest) ==
    UNION {{manifest[k][i][1] : i \in 1..Len(manifest[k])} : k \in DOMAIN manifest}

\* a runtime directory with n files for every pattern with a "*" (one for a
\* pattern without, when n > 0), and a file no pattern names
RuntimeDir(profile, n) ==
    {Expand(pt, DigitChar[k + 1]) :
        pt \in ManifestPatterns(RuntimeFiles(profile)), k \in 1..n}
    \cup {<<"README">>}

\* the runtime directories of the model, and for each the files every
\* pattern of the manifests matches in it
RuntimeDirTable ==
    [pr \in {"Windows", "Linux"} |-> [n \in 0..MaxMatches |-> RuntimeDir(pr, n)]]

RuntimeDirs == {RuntimeDirTable[pr][n] : pr \in {"Windows", "Linux"}, n \in 0..MaxMatches}

GlobTable ==
    [d \in RuntimeDirs |->
        [pt \in ManifestPatterns(WindowsRuntimeFiles) \cup ManifestPatterns(LinuxRuntimeFiles) |->
            {f \in d : GlobMatch(pt, f)}]]

\* glob.glob(os.path.join(runtime_dir, src)) for every src, in the runtime
\* directory given
glob(runtime) == GlobTable[runtime]

\* the loop over one subsystem's (src, dst) pairs: makedirs of the
\* destination when it does not exist, then a copy of every file of the
\* runtime directory that src matches; pkg is the package directory and
\* globbed[src] the files src matches
RECURSIVE CopyPairs(_, _, _)
CopyPairs(pairs, pkg, globbed) ==
    IF pairs = <<>> THEN pkg
    ELSE LET src == pairs[1][1]
             dst == pairs[1][2]
             copied == {dst \o <<f>> : f \in globbed[src]}
         IN  CopyPairs(Tail(pairs), Holding(pkg.files \cup copied), globbed)

\* the loop over RuntimeDefaultDeploy in the order the set is iterated in:
\* RuntimeFiles[package] raises KeyError for a package the profile's
\* manifest does not have
RECURSIVE CopyPackages(_, _, _, _)
CopyPackages(order, manifest, pkg, globbed) ==
    IF order = <<>> THEN [raised |-> "none", pkg |-> pkg]
    ELSE IF order[1] \notin DOMAIN manifest
    THEN [raised |-> "KeyError", pkg |-> pkg]
    ELSE CopyPackages(Tail(order), manifest,
                      CopyPairs(manifest[order[1]], pkg, globbed), globbed)

\* the msvc runtime BuildSupportWindows.copy_runtime copies from the system
\* directory
RuntimeDlls(width, msvc_ver) ==
    << <<"vcruntime140.dll">>, <<"msvcp140.dll">> >> \o
    (IF width = 64 /\ ~TupleLess(msvc_ver, <<19, 20>>)
     THEN << <<"vcruntime140_1.dll">> >> ELSE <<>>)

\* shutil.copy(src, self.PackageDir) for each dll: FileNotFoundError at the
\* first one the system directory does not hold
RECURSIVE CopyDlls(_, _, _)
CopyDlls(dlls, pkg, sysdir) ==
    IF dlls = <<>> THEN [raised |-> "none", pkg |-> pkg]
    ELSE IF dlls[1] \notin sysdir THEN [raised |-> "FileNotFoundError", pkg |-> pkg]
    ELSE CopyDlls(Tail(dlls), Holding(pkg.files \cup {<<dlls[1]>>}), sysdir)

\* copy_runtime of the profile: the exception raised and the package
\* directory it leaves. env: the order RuntimeDefaultDeploy is iterated in,
\* the files of the runtime directory, those of the system directory
copy_runtime(profile, h, env, pkg) ==
    LET base == CopyPackages(env.order, RuntimeFiles(profile), pkg, glob(env.runtime))
    IN  IF profile = "Linux" \/ base.raised # "none" THEN base
        ELSE CopyDlls(RuntimeDlls(h.width, h.msvc_ver), base.pkg, env.sysdir)

\* os.listdir and os.walk give the entries of a directory in an order of
\* their own; the entries of the set in one order
RECURSIVE SetToSeq(_)
SetToSeq(S) ==
    IF S = {} THEN <<>>
    ELSE LET x == CHOOSE y \in S : TRUE IN <<x>> \o SetToSeq(S \ {x})

\* a directory is the set of the paths of the files below it, a path the
\* sequence of its names; the files directly in the directory root, and the
\* directories directly in it
FilesIn(root, files) ==
    {f \in files : Len(f) = Len(root) + 1 /\ SubSeq(f, 1, Len(root)) = root}

SubDirs(root, files) ==
    {SubSeq(f, 1, Len(root) + 1) :
        f \in {g \in files : Len(g) > Len(root) + 1 /\ SubSeq(g, 1, Len(root)) = root}}

\* os.path.join(pdir, ...): the path with the package directory in front
JoinPdir(path) == << <<PackageDir>> >> \o path

\* os.path.relpath(jname, self.PackageDir)
relpath(jname, start) ==
    IF jname # <<>> /\ jname[1] = start THEN Tail(jname)
    ELSE << <<"..">> >> \o jname

\* for (root, _, fnames) in os.walk(jentry): for fname in fnames:
\* data_files.append(pdir_rel), top-down
RECURSIVE walk(_, _)
RECURSIVE WalkDirs(_, _)
walk(root, files) ==
    [i \in 1..Cardinality(FilesIn(root, files)) |->
        relpath(JoinPdir(SetToSeq(FilesIn(root, files))[i]), <<PackageDir>>)]
    \o WalkDirs(SetToSeq(SubDirs(root, files)), files)

WalkDirs(ds, files) ==
    IF ds = <<>> THEN <<>> ELSE walk(ds[1], files) \o WalkDirs(Tail(ds), files)

get_package_data_filesFromTop(pkg) ==
    [patterns |-> << <<"*", ".dll">>, <<"*", ".zip">>, <<"*", ".so">>, <<"*", ".so.", "*">> >>,
     files |-> walk(<<>>, pkg.files)]

\* get_package_data_files: the fixed patterns, and the path relative to the
\* package directory of every file below a subdirectory of it
get_package_data_files(pkg) ==
    [patterns |-> << <<"*", ".dll">>, <<"*", ".zip">>, <<"*", ".so">>, <<"*", ".so.", "*">> >>,
     files |-> WalkDirs(SetToSeq(SubDirs(<<>>, pkg.files)), pkg.files)]

WindowsExtraCompileArgs == <<"/Gy", "/GL", "/EHsc">>

WindowsExtraLinkArgs == <<"/OPT:REF", "/OPT:ICF", "/LTCG">>

LinuxExtraCompileArgs ==
    <<"-Wno-unknown-pragmas", "-fPIC", "-g0", "-Wall", "-O3", "-Wno-switch">>

LinuxExtraLinkArgs == <<"-g0", "-Wl,--enable-new-dtags", "-Wl,-rpath,$ORIGIN">>

\* BuildSupportWindows.__init__ and BuildSupportLinux.__init__: the flags
\* once the profile is constructed
InitCompileArgs(profile, msvc_ver) ==
    IF profile = "Windows"
    THEN WindowsExtraCompileArgs \o <<"/I$ROOT/include">> \o
         (IF ~TupleLess(msvc_ver, <<19, 13>>) THEN <<"/permissive-">> ELSE <<>>)
    ELSE LinuxExtraCompileArgs \o <<"-I$ROOT", "-I$ROOT/include">>

InitLinkArgs(profile) ==
    IF profile = "Windows" THEN WindowsExtraLinkArgs
    ELSE LinuxExtraLinkArgs \o
         <<"-L$ROOT/lib/x64", "-lrt", "-lusb-1.0", "-lfa_genapi_c",
           "-lfacamera_c", "-limage", "-lGCBase_gcc48_v3_4">>

\* list.remove(x) inside try/except ValueError
RemoveFirst(q, x) ==
    IF \A i \in 1..Len(q) : q[i] # x THEN q
    ELSE LET i == CHOOSE k \in 1..Len(q) : q[k] = x /\ \A m \in 1..(k - 1) : q[m] # x
         IN  SubSeq(q, 1, i - 1) \o SubSeq(q, i + 1, Len(q))

use_debug_configurationAppendOnly(profile, compile, link) ==
    IF profile = "Windows"
    THEN [compile |-> compile \o <<"/Od", "/Zi">>, link |-> link \o <<"/DEBUG">>]
    ELSE [compile |-> compile \o <<"-O0", "-g3">>, link |-> link \o <<"-g3">>]

\* use_debug_configuration of the profile: [compile, link]
use_debug_configuration(profile, compile, link) ==
    IF profile = "Windows"
    THEN [compile |-> compile \o <<"/Od", "/Zi">>, link |-> link \o <<"/DEBUG">>]
    ELSE [compile |-> RemoveFirst(RemoveFirst(compile, "-O3"), "-g0") \o <<"-O0", "-g3">>,
          link |-> RemoveFirst(link, "-g0") \o <<"-g3">>]

-----------------------------------------------------------------------------
(* The script: the class bodies and the __main__ block                     *)

\* the machines the script is started on
Hosts ==
    [os : {"Windows"}, width : {32, 64}, sdk_root : BOOLEAN, msvc_ver : {<<19, 20>>}]
    \cup [os : {"Linux"}, width : {32, 64}, sdk_root : {TRUE}, msvc_ver : {<<16, 0>>}]
    \cup {[os |-> o[1], width |-> o[2], sdk_root |-> TRUE, msvc_ver |-> <<16, 0>>] :
            o \in {<<"Darwin", 64>>, <<"Darwin", 32>>, <<"FreeBSD", 64>>}}

\* swig on the path in version 4.0.0, or nowhere
RunSwigHosts(os) ==
    {[os |-> os, search |-> <<>>, run |-> <<r, r>>] :
        r \in {x \in SwigRuns : x.kind = "missing" \/ x.ver = <<4, 0, 0>>}}

RunGit ==
    {[git |-> g, now |-> NoGit.now] :
        g \in {x \in GitOutcomes :
                 \/ x.kind = "missing"
                 \/ x.text = T_1_2_3 \o <<"-", "1", "4", "-", "g", "a", "b", "c", "d", "e", "f">>}}

\* a file directly in a directory, and one in a subdirectory of it
SomeFile == << <<"left", ".txt">> >>

NestedFile == << <<"sub">>, <<"left", ".txt">> >>

WrapC == << <<"FAI_python_wrap.c">> >>

ModulePy == << <<"FAI_python.py">> >>

InitPy == << <<"__init__.py">> >>

\* the directories a previous build leaves
PreviousBuild ==
    [d \in Dirs |->
        IF d = GeneratedDir THEN Holding({WrapC})
        ELSE IF d = PackageDir THEN Holding({ModulePy, InitPy, NestedFile})
        ELSE Holding({SomeFile})]

Overrides == { <<>>, <<"9", ".", "9">> }

\* what is left of the command line for setup()
Remainders ==
    { {"bdist_wheel"}, {"-h"}, {"--help", "bdist_wheel"}, {"clean"}, {"clean", "-h"} }

\* the orders a set of four strings can be iterated in
DeployOrders ==
    {q \in [1..Cardinality(RuntimeDefaultDeploy) -> RuntimeDefaultDeploy] :
        \A i, j \in DOMAIN q : i # j => q[i] # q[j]}

\* the system directory holds the msvc runtime, or not
SystemDirs ==
    { {}, {<<"vcruntime140.dll">>, <<"msvcp140.dll">>, <<"vcruntime140_1.dll">>} }

Init ==
    /\ pc = "import"
    /\ host \in Hosts
    /\ swigIn \in (IF host.os \in {"Windows", "Linux"}
                   THEN RunSwigHosts(host.os) ELSE {NoSwig})
    /\ gitIn \in RunGit
    /\ fs \in {NoFs, PreviousBuild}
    /\ version = <<>>
    /\ SwigExe = NoExe
    /\ cleanIn = NoClean
    /\ bs = "unset"
    /\ args = NoArgs
    /\ help_mode = FALSE
    /\ ExtraCompileArgs = <<>>
    /\ ExtraLinkArgs = <<>>
    /\ fai_python_src = <<>>
    /\ fai_python_ext = NoExt
    /\ package_data_files = NoData
    /\ setupCall = NoSetup
    /\ copyIn = NoCopy
    /\ done = {}
    /\ rc = NoRc
    /\ exit = "running"

\* an uncaught exception ends the process
Raise(e) == pc' = "end" /\ exit' = e

\* the body of class BuildSupport: the BinPath lookup
Import ==
    /\ pc = "import"
    /\ IF <<host.os, host.width>> \in BinPathKeys
       THEN pc' = "make" /\ exit' = exit
       ELSE Raise("KeyError")
    /\ UNCHANGED <<pureVars, host, bs, args, help_mode, ExtraCompileArgs,
                   ExtraLinkArgs, fai_python_src, fai_python_ext,
                   package_data_files, setupCall, copyIn, done, rc>>

\* bs = BuildSupport.make(); bs.dump()
Make ==
    /\ pc = "make"
    /\ LET cls == make(host.os)
           found == find_swig(swigIn)
       IN  IF cls = "None"
           THEN /\ bs' = cls
                /\ pc' = "get_version"
                /\ UNCHANGED <<SwigExe, ExtraCompileArgs, ExtraLinkArgs, exit>>
           ELSE IF found.raised # "none"
           THEN /\ Raise(found.raised)
                /\ UNCHANGED <<bs, SwigExe, ExtraCompileArgs, ExtraLinkArgs>>
           ELSE IF cls = "Windows" /\ ~host.sdk_root
           THEN /\ Raise("EnvironmentError")
                /\ SwigExe' = found.exe
                /\ UNCHANGED <<bs, ExtraCompileArgs, ExtraLinkArgs>>
           ELSE /\ bs' = cls
                /\ SwigExe' = found.exe
                /\ ExtraCompileArgs' = InitCompileArgs(cls, host.msvc_ver)
                /\ ExtraLinkArgs' = InitLinkArgs(cls)
                /\ pc' = "get_version"
                /\ exit' = exit
    /\ UNCHANGED <<gitIn, version, swigIn, fs, cleanIn, host, args, help_mode,
                   fai_python_src, fai_python_ext, package_data_files,
                   setupCall, copyIn, done, rc>>

\* parser.add_argument("--pp-version", default=bs.get_version(), ...)
GetVersion ==
    /\ pc = "get_version"
    /\ IF bs = "None"
       THEN Raise("AttributeError") /\ args' = args
       ELSE LET r == get_git_version(gitIn.git, gitIn.now)
            IN  IF r.raised = "none"
                THEN /\ args' = [args EXCEPT !.pp_version = r.value]
                     /\ pc' = "parse"
                     /\ exit' = exit
                ELSE Raise(r.raised) /\ args' = args
    /\ UNCHANGED <<pureVars, host, bs, help_mode, ExtraCompileArgs,
                   ExtraLinkArgs, fai_python_src, fai_python_ext,
                   package_data_files, setupCall, copyIn, done, rc>>

\* parser.parse_known_args(), then the check for "-h" and "--help"
ParseArgs ==
    /\ pc = "parse"
    /\ \E o \in Overrides, rem \in Remainders,
          dbg, only, skip, doxy, doc \in BOOLEAN :
          /\ args' = [pp_version |-> IF o = <<>> THEN args.pp_version ELSE o,
                      pp_debug |-> dbg, swig_only |-> only, skip_swig |-> skip,
                      rebuild_doxygen |-> doxy, generate_python_doc |-> doc,
                      remainder |-> rem]
          /\ help_mode' = ("-h" \in rem \/ "--help" \in rem)
          /\ done' = IF "-h" \in rem \/ "--help" \in rem
                     THEN done \cup {"print_help"} ELSE done
    /\ pc' = "debug"
    /\ UNCHANGED <<pureVars, host, bs, ExtraCompileArgs, ExtraLinkArgs,
                   fai_python_src, fai_python_ext, package_data_files,
                   setupCall, copyIn, rc, exit>>

\* if args.pp_debug: ...; version = args.pp_version
Debug ==
    /\ pc = "debug"
    /\ IF args.pp_debug
       THEN LET d == use_debug_configuration(bs, ExtraCompileArgs, ExtraLinkArgs)
            IN  /\ ExtraCompileArgs' = d.compile
                /\ ExtraLinkArgs' = d.link
                /\ args' = [args EXCEPT !.pp_version = @ \o <<"_", "d", "b", "g">>]
                /\ done' = done \cup {"use_debug_configuration"}
       ELSE UNCHANGED <<ExtraCompileArgs, ExtraLinkArgs, args, done>>
    /\ version' = args'.pp_version
    /\ pc' = "clean_cmd"
    /\ UNCHANGED <<gitIn, swigIn, SwigExe, fs, cleanIn, host, bs, help_mode,
                   fai_python_src, fai_python_ext, package_data_files,
                   setupCall, copyIn, rc, exit>>

\* if "clean" in remainder: bs.clean("std", [...]); sys.exit(0)
CleanCmd ==
    /\ pc = "clean_cmd"
    /\ "clean" \in args.remainder
    /\ cleanIn' = [mode |-> "std", additional_dirs |-> SetuptoolsDirs, before |-> fs]
    /\ fs' = clean("std", SetuptoolsDirs, fs)
    /\ done' = done \cup {"clean"}
    /\ pc' = "end"
    /\ exit' = "0"
    /\ UNCHANGED <<gitIn, version, swigIn, SwigExe, host, bs, args, help_mode,
                   ExtraCompileArgs, ExtraLinkArgs, fai_python_src,
                   fai_python_ext, package_data_files, setupCall, copyIn, rc>>

\* subprocess.call(cmd) with cmd one string and no shell: on Linux the whole
\* string is taken for the name of the program, which is not found; on
\* Windows the script runs and its exit code is the value of the call
SubprocessCall(os, code) ==
    IF os = "Windows" THEN [raised |-> "none", code |-> code]
    ELSE [raised |-> "FileNotFoundError", code |-> -1]

\* if not help_mode: if args.rebuild_doxygen: subprocess.call(...)
RebuildDoxygen ==
    /\ pc = "clean_cmd"
    /\ "clean" \notin args.remainder
    /\ IF ~help_mode /\ args.rebuild_doxygen
       THEN \E code \in {0, 1} :
              LET r == SubprocessCall(host.os, code)
              IN  /\ done' = done \cup {"rebuild_doxygen"}
                  /\ rc' = [rc EXCEPT !.doxygen = r.code]
                  /\ IF r.raised = "none"
                     THEN pc' = "clean_dirs" /\ exit' = exit
                     ELSE Raise(r.raised)
       ELSE /\ pc' = IF help_mode THEN "extension" ELSE "clean_dirs"
            /\ UNCHANGED <<done, rc, exit>>
    /\ UNCHANGED <<pureVars, host, bs, args, help_mode, ExtraCompileArgs,
                   ExtraLinkArgs, fai_python_src, fai_python_ext,
                   package_data_files, setupCall, copyIn>>

\* bs.clean("skip" if args.skip_swig else "keep")
CleanDirs ==
    /\ pc = "clean_dirs"
    /\ LET mode == IF args.skip_swig THEN "skip" ELSE "keep"
       IN  /\ cleanIn' = [mode |-> mode, additional_dirs |-> <<>>, before |-> fs]
           /\ fs' = clean(mode, <<>>, fs)
    /\ done' = done \cup {"clean"}
    /\ pc' = "call_swig"
    /\ UNCHANGED <<gitIn, version, swigIn, SwigExe, host, bs, args, help_mode,
                   ExtraCompileArgs, ExtraLinkArgs, fai_python_src,
                   fai_python_ext, package_data_files, setupCall, copyIn, rc, exit>>

\* os.path.join(self.GeneratedDir, "%s_wrap.c" % name)
cpp_name == <<GeneratedDir>> \o WrapC

\* what swig and the two open(..., "a") of call_swig leave on disk
Generated(f) ==
    [f EXCEPT ![GeneratedDir] = Holding(@.files \cup {WrapC}),
              ![PackageDir] = Holding(@.files \cup {ModulePy, InitPy})]

\* fai_python_src = bs.call_swig(".", "FAI_python.i", version, args.skip_swig)
CallSwig ==
    /\ pc = "call_swig"
    /\ IF args.skip_swig
       THEN /\ fai_python_src' = cpp_name
            /\ pc' = "swig_only"
            /\ done' = done \cup {"call_swig"}
            /\ UNCHANGED <<fs, rc, exit>>
       ELSE \E code \in {0, 1} :
              /\ rc' = [rc EXCEPT !.swig = code]
              /\ done' = done \cup {"call_swig", "swig"}
              /\ IF code = 0
                 THEN /\ fs' = Generated(fs)
                      /\ fai_python_src' = cpp_name
                      /\ pc' = "swig_only"
                      /\ exit' = exit
                 ELSE /\ Raise("CalledProcessError")
                      /\ UNCHANGED <<fs, fai_python_src>>
    /\ UNCHANGED <<gitIn, version, swigIn, SwigExe, cleanIn, host, bs, args,
                   help_mode, ExtraCompileArgs, ExtraLinkArgs, fai_python_ext,
                   package_data_files, setupCall, copyIn>>

\* the step after call_swig when --swig-only is given, "exit" or "go on"
AfterSwigNoExit(swig_only) == "copy_runtime"

AfterSwig(swig_only) == IF swig_only THEN "end" ELSE "copy_runtime"

\* if args.swig_only: sys.exit(0)
SwigOnly ==
    /\ pc = "swig_only"
    /\ pc' = AfterSwig(args.swig_only)
    /\ exit' = IF pc' = "end" THEN "0" ELSE exit
    /\ UNCHANGED <<pureVars, host, bs, args, help_mode, ExtraCompileArgs,
                   ExtraLinkArgs, fai_python_src, fai_python_ext,
                   package_data_files, setupCall, copyIn, done, rc>>

\* bs.copy_runtime()
CopyRuntime ==
    /\ pc = "copy_runtime"
    /\ \E order \in DeployOrders, n \in 0..MaxMatches,
          sys \in (IF bs = "Windows" THEN SystemDirs ELSE {{}}) :
          LET env == [called |-> TRUE, order |-> order,
                      runtime |-> RuntimeDirTable[bs][n], sysdir |-> sys]
              r == copy_runtime(bs, host, env, fs[PackageDir])
          IN  /\ copyIn' = [env EXCEPT !.order = <<>>]
              /\ fs' = [fs EXCEPT ![PackageDir] = r.pkg]
              /\ IF r.raised = "none"
                 THEN pc' = "extension" /\ exit' = exit
                 ELSE Raise(r.raised)
    /\ done' = done \cup {"copy_runtime"}
    /\ UNCHANGED <<gitIn, version, swigIn, SwigExe, cleanIn, host, bs, args,
                   help_mode, ExtraCompileArgs, ExtraLinkArgs, fai_python_src,
                   fai_python_ext, package_data_files, setupCall, rc>>

\* fai_python_ext = Extension('FAI_python._FAI_python', [fai_python_src], ...):
\* in help mode fai_python_src was never bound
DefineExtension ==
    /\ pc = "extension"
    /\ IF fai_python_src = <<>>
       THEN Raise("NameError") /\ fai_python_ext' = fai_python_ext
       ELSE /\ fai_python_ext' = [sources |-> <<fai_python_src>>,
                                  extra_compile_args |-> ExtraCompileArgs,
                                  extra_link_args |-> ExtraLinkArgs]
            /\ pc' = "package_data"
            /\ exit' = exit
    /\ UNCHANGED <<pureVars, host, bs, args, help_mode, ExtraCompileArgs,
                   ExtraLinkArgs, fai_python_src, package_data_files,
                   setupCall, copyIn, done, rc>>

\* package_data_files = bs.get_package_data_files()
PackageData ==
    /\ pc = "package_data"
    /\ IF fs[PackageDir].exists
       THEN /\ package_data_files' = get_package_data_files(fs[PackageDir])
            /\ pc' = "setup"
            /\ exit' = exit
       ELSE Raise("FileNotFoundError") /\ package_data_files' = package_data_files
    /\ done' = done \cup {"get_package_data_files"}
    /\ UNCHANGED <<pureVars, host, bs, args, help_mode, ExtraCompileArgs,
                   ExtraLinkArgs, fai_python_src, fai_python_ext, setupCall,
                   copyIn, rc>>

\* setup(name='FAI_python', version=version, ext_modules=[fai_python_ext], ...)
Setup ==
    /\ pc = "setup"
    /\ setupCall' = [called |-> TRUE, version |-> version, ext |-> fai_python_ext,
                     package_data |-> package_data_files,
                     artifact |-> WrapC \in fs[GeneratedDir].files]
    /\ done' = done \cup {"setup"}
    /\ \E ok \in BOOLEAN :
          IF ok THEN pc' = "python_doc" /\ exit' = exit
          ELSE Raise("SystemExit")
    /\ UNCHANGED <<pureVars, host, bs, args, help_mode, ExtraCompileArgs,
                   ExtraLinkArgs, fai_python_src, fai_python_ext,
                   package_data_files, copyIn, rc>>

\* if args.generate_python_doc: subprocess.call(...); then the script ends
GeneratePythonDoc ==
    /\ pc = "python_doc"
    /\ IF args.generate_python_doc
       THEN \E code \in {0, 1} :
              LET r == SubprocessCall(host.os, code)
              IN  /\ done' = done \cup {"generate_python_doc"}
                  /\ rc' = [rc EXCEPT !.python_doc = r.code]
                  /\ IF r.raised = "none"
                     THEN pc' = "end" /\ exit' = "0"
                     ELSE Raise(r.raised)
       ELSE /\ pc' = "end"
            /\ exit' = "0"
            /\ UNCHANGED <<done, rc>>
    /\ UNCHANGED <<pureVars, host, bs, args, help_mode, ExtraCompileArgs,
                   ExtraLinkArgs, fai_python_src, fai_python_ext,
                   package_data_files, setupCall, copyIn>>

Next ==
    \/ Import
    \/ Make
    \/ GetVersion
    \/ ParseArgs
    \/ Debug
    \/ CleanCmd
    \/ RebuildDoxygen
    \/ CleanDirs
    \/ CallSwig
    \/ SwigOnly
    \/ CopyRuntime
    \/ DefineExtension
    \/ PackageData
    \/ Setup
    \/ GeneratePythonDoc

Spec == Init /\ [][Next]_vars

\* the command line has been parsed
Parsed == pc \notin {"import", "make", "get_version", "parse"}

\* C1 as stated: with "-h" or "--help" and without "clean" the run prints
\* the usage, calls neither call_swig nor copy_runtime, and reaches setup():
\* it does not end before setup() is called.
C1_AsStated ==
    (Parsed /\ help_mode /\ "clean" \notin args.remainder)
    => /\ "print_help" \in done
       /\ "call_swig" \notin done
       /\ "copy_runtime" \notin done
       /\ pc = "end" => setupCall.called

\* C2: with "clean" on the command line, whatever the other flags, the run
\* removes the generated, package, build, FAI_python.egg-info and dist
\* directories and exits with status 0, and never runs the doxygen rebuild,
\* the code generator, the runtime staging, the package-data enumeration or
\* setup().
C2_CleanExits ==
    (Parsed /\ "clean" \in args.remainder)
    => /\ done \cap {"rebuild_doxygen", "call_swig", "swig", "copy_runtime",
                     "get_package_data_files", "setup", "generate_python_doc"} = {}
       /\ pc \in {"debug", "clean_cmd", "end"}
       /\ pc = "end" => /\ exit = "0"
                        /\ \A d \in {"generated", "FAI_python", "build",
                                     "FAI_python.egg-info", "dist"} : ~fs[d].exists

C2_Witness ==
    /\ pc = "end"
    /\ exit = "0"
    /\ args.remainder = {"clean", "-h"}
    /\ args.rebuild_doxygen /\ args.swig_only /\ args.generate_python_doc /\ args.pp_debug
    /\ cleanIn.before = PreviousBuild
    /\ fs = NoFs

\* every file of the runtime directory that a pattern of the manifest of
\* the profile names is there
SourcesPresent ==
    /\ copyIn.runtime # RuntimeDirTable[bs][0]
    /\ bs = "Windows" => copyIn.sysdir # {}

\* C3 as stated: on the Windows and on the Linux profile, when the source
\* files are present, copy_runtime does not abort, and for every subsystem
\* of RuntimeDefaultDeploy and every (pattern, destination) of its manifest
\* the destination exists and holds every file the pattern matches.
C3_AsStated ==
    (copyIn.called /\ SourcesPresent)
    => /\ exit \notin {"KeyError", "FileNotFoundError"}
       /\ fs[PackageDir].exists
       /\ \A p \in RuntimeDefaultDeploy :
            /\ p \in DOMAIN RuntimeFiles(bs)
            /\ \A i \in 1..Len(RuntimeFiles(bs)[p]) :
                 \A f \in copyIn.runtime :
                    GlobMatch(RuntimeFiles(bs)[p][i][1], f)
                    => (RuntimeFiles(bs)[p][i][2] \o <<f>>) \in fs[PackageDir].files

\* the directory name documented for a recognised (os, width)
ExpectedBinPath(os, width) ==
    IF os = "Windows" THEN (IF width = 32 THEN "Win32" ELSE "x64")
    ELSE (IF os = "Linux" /\ width = 32 THEN "lib" ELSE "lib64")

Recognised(os, width) ==
    \/ os \in {"Windows", "Linux"} /\ width \in {32, 64}
    \/ os = "Darwin" /\ width = 64

\* C7 as stated: for Windows/32, Windows/64, Linux/32, Linux/64 and
\* Darwin/64 the selection gives a profile with the matching directory
\* name; for any other pair the run ends with a configuration error before
\* anything is parsed, cleaned, generated or packaged.
C7_AsStated ==
    IF Recognised(host.os, host.width)
    THEN (pc \notin {"import", "make"}
            /\ exit \notin {"RuntimeError", "ValueError", "EnvironmentError"})
         => /\ bs \in {"Windows", "Linux"}
            /\ BinPath(host.os, host.width) = ExpectedBinPath(host.os, host.width)
    ELSE pc # "import"
         => /\ pc = "end" /\ exit = "KeyError"
            /\ args = NoArgs /\ done = {} /\ fs \in {NoFs, PreviousBuild}

\* C8 as stated: once a tool run as a build step (the code generator, the
\* doxygen rebuild, the python-doc generation) has exited non-zero, the run
\* is over and has not ended with status 0.
C8_AsStated ==
    (rc.swig > 0 \/ rc.doxygen > 0 \/ rc.python_doc > 0)
    => (pc = "end" /\ exit # "0")

\* C10: in a run without help and without "clean" and with --swig-only, the
\* process exits with status 0 right after call_swig has returned (the
\* generator run or skipped), and never stages the runtime, enumerates the
\* package data, calls setup() or generates the python doc.
C10_SwigOnly ==
    (Parsed /\ args.swig_only /\ ~help_mode /\ "clean" \notin args.remainder)
    => /\ done \cap {"copy_runtime", "get_package_data_files", "setup",
                     "generate_python_doc"} = {}
       /\ pc \notin {"copy_runtime", "extension", "package_data", "setup", "python_doc"}
       /\ fai_python_src # <<>> => (pc = "swig_only" \/ (pc = "end" /\ exit = "0"))
       /\ (pc = "end" /\ exit = "0") => "call_swig" \in done

C10_Witness ==
    /\ pc = "end"
    /\ exit = "0"
    /\ args.swig_only /\ args.skip_swig /\ args.generate_python_doc
    /\ args.remainder = {"bdist_wheel"}
    /\ fai_python_src = cpp_name
    /\ done = {"clean", "call_swig"}

Has(q, x) == \E i \in 1..Len(q) : q[i] = x

DbgSuffix == <<"_", "d", "b", "g">>

EndsWithDbg(v) ==
    Len(v) >= Len(DbgSuffix) /\ SubSeq(v, Len(v) - Len(DbgSuffix) + 1, Len(v)) = DbgSuffix

\* the flags disable optimisation and enable debug symbols, as C11 lists them
DebugFlags(profile, compile, link) ==
    IF profile = "Linux"
    THEN /\ Has(compile, "-O0") /\ Has(compile, "-g3")
         /\ ~Has(compile, "-O3") /\ ~Has(compile, "-g0")
         /\ Has(link, "-g3") /\ ~Has(link, "-g0")
    ELSE /\ Has(compile, "/Od") /\ Has(compile, "/Zi")
         /\ Has(link, "/DEBUG")

\* C11: with --pp-debug, from the step after the debug handling on,
\* use_debug_configuration has been applied, the version ends in "_dbg"
\* (after the resolved or the overriding version) and the flags of the
\* profile are the debug flags (Linux: -O0 and -g3, no -O3, no -g0; Windows:
\* /Od, /Zi, /DEBUG); an Extension that has been constructed has read exactly
\* these flags, and a setup() that has been called got this version.
C11_DebugBeforeUse ==
    (args.pp_debug /\ Parsed /\ pc # "debug")
    => /\ "use_debug_configuration" \in done
       /\ EndsWithDbg(version)
       /\ \E o \in Overrides \cup {get_git_version(gitIn.git, gitIn.now).value} :
             o # <<>> /\ version = o \o DbgSuffix
       /\ DebugFlags(bs, ExtraCompileArgs, ExtraLinkArgs)
       /\ fai_python_ext # NoExt =>
             /\ fai_python_ext.extra_compile_args = ExtraCompileArgs
             /\ fai_python_ext.extra_link_args = ExtraLinkArgs
             /\ DebugFlags(bs, fai_python_ext.extra_compile_args,
                           fai_python_ext.extra_link_args)
       /\ setupCall.called => setupCall.version = version

C11_Witness ==
    /\ pc = "end"
    /\ exit = "0"
    /\ args.pp_debug
    /\ bs = "Windows"
    /\ setupCall.called
    /\ setupCall.version = <<"9", ".", "9">> \o DbgSuffix
    /\ Has(setupCall.ext.extra_compile_args, "/Od")
    /\ Has(setupCall.ext.extra_link_args, "/DEBUG")

\* C13 as stated: setup() is called only while the generated source
\* generated/FAI_python_wrap.c, which the Extension names, is on disk; a
\* --skip-swig run started without it does not reach setup().
C13_AsStated ==
    setupCall.called
    => /\ setupCall.ext.sources = <<cpp_name>>
       /\ setupCall.artifact
       /\ WrapC \in fs[GeneratedDir].files

-----------------------------------------------------------------------------
(* clean on its own, from the states a directory can be in                 *)

DirStates == {Absent, Holding({}), Holding({SomeFile}), Holding({SomeFile, NestedFile})}

InitClean ==
    /\ pc = "clean"
    /\ IdleRun
    /\ fs \in [Dirs -> DirStates]
    /\ cleanIn \in {[mode |-> m, additional_dirs |-> a, before |-> fs] :
                      m \in {"std", "keep", "skip"},
                      a \in {<<>>, SetuptoolsDirs, <<"dist">>}}
    /\ gitIn = NoGit
    /\ version = <<>>
    /\ swigIn = NoSwig
    /\ SwigExe = NoExe

CleanStep ==
    /\ pc = "clean"
    /\ fs' = clean(cleanIn.mode, cleanIn.additional_dirs, fs)
    /\ pc' = "cleaned"
    /\ UNCHANGED <<gitIn, version, swigIn, SwigExe, cleanIn, runVars>>

NextClean == CleanStep

SpecClean == InitClean /\ [][NextClean]_vars

\* C9: after clean("std", dirs) the generated and package directories and
\* every directory of dirs do not exist; after clean("keep") the generated
\* and package directories exist and are empty; clean("skip") leaves every
\* directory as it was.
C9_CleanModes ==
    pc = "cleaned" =>
        /\ cleanIn.mode = "std" =>
              /\ ~fs[GeneratedDir].exists
              /\ ~fs[PackageDir].exists
              /\ \A i \in 1..Len(cleanIn.additional_dirs) :
                    ~fs[cleanIn.additional_dirs[i]].exists
        /\ cleanIn.mode = "keep" =>
              /\ fs[GeneratedDir].exists /\ fs[GeneratedDir].files = {}
              /\ fs[PackageDir].exists /\ fs[PackageDir].files = {}
        /\ cleanIn.mode = "skip" => fs = cleanIn.before

C9_Witness ==
    /\ pc = "cleaned"
    /\ cleanIn.mode = "skip"
    /\ cleanIn.before[GeneratedDir] = Holding({SomeFile})
    /\ cleanIn.before[PackageDir] = Holding({SomeFile, NestedFile})
    /\ fs[PackageDir] = Holding({SomeFile, NestedFile})

-----------------------------------------------------------------------------
(* get_package_data_files on its own, over package directories             *)

\* the files a package directory of the model can hold: directly in it, in
\* a subdirectory, deeper, and under the same name in two directories
TreePaths ==
    { << <<"a", ".dll">> >>,
      << <<"left", ".txt">> >>,
      << <<"sub">>, <<"left", ".txt">> >>,
      << <<"sub">>, <<"a", ".dll">> >>,
      << <<"sub">>, <<"deep">>, <<"left", ".txt">> >>,
      << <<"sub">>, <<"deep">>, <<"deeper">>, <<"z">> >>,
      << <<"other">>, <<"left", ".txt">> >> }

InitData ==
    /\ pc = "list"
    /\ IdleRun
    /\ \E t \in SUBSET TreePaths : fs = [NoFs EXCEPT ![PackageDir] = Holding(t)]
    /\ cleanIn = NoClean
    /\ gitIn = NoGit
    /\ version = <<>>
    /\ swigIn = NoSwig
    /\ SwigExe = NoExe

ListData ==
    /\ pc = "list"
    /\ package_data_files' = get_package_data_files(fs[PackageDir])
    /\ pc' = "listed"
    /\ UNCHANGED <<pureVars, host, bs, args, help_mode, ExtraCompileArgs,
                   ExtraLinkArgs, fai_python_src, fai_python_ext, setupCall,
                   copyIn, done, rc, exit>>

NextData == ListData

SpecData == InitData /\ [][NextData]_vars

\* C12: the result holds the four fixed patterns and, for every file below
\* a subdirectory of the package directory, at any depth, exactly one entry
\* that is the file's path relative to the package directory; every entry
\* is such a path, so a file directly in the package directory has no entry
\* and no entry leads out of the package directory.
C12_PackageData ==
    pc = "listed" =>
        LET r == package_data_files
            t == fs[PackageDir].files
        IN  /\ r.patterns = << <<"*", ".dll">>, <<"*", ".zip">>, <<"*", ".so">>,
                               <<"*", ".so.", "*">> >>
            /\ \A f \in t : Len(f) >= 2 =>
                  Cardinality({i \in 1..Len(r.files) : r.files[i] = f}) = 1
            /\ \A i \in 1..Len(r.files) :
                  /\ r.files[i] \in t
                  /\ Len(r.files[i]) >= 2
                  /\ r.files[i][1] # <<"..">>

C12_Witness ==
    /\ pc = "listed"
    /\ fs[PackageDir].files = TreePaths
    /\ Len(package_data_files.files) = 5
    /\ \E i \in 1..5 :
          package_data_files.files[i] = << <<"sub">>, <<"deep">>, <<"deeper">>, <<"z">> >>

====
